---- MODULE Spec2Model ----
(***************************************************************************)
(* Model of ObjectDetection.__call__ and its helpers                       *)
(* (src/AI학습_YOLO/AI학습_YOLO.ipynb, first code cell).                   *)
(*                                                                         *)
(* The run is a single sequential process; pc is its position.  The video  *)
(* stream, the detection model and the clock are the environment: what a   *)
(* read returns, what the model returns and how long a frame took are      *)
(* chosen with \E from small sets.                                         *)
(*                                                                         *)
(* Numbers.  Normalised coordinates are Den-ths (k/Den), confidences are   *)
(* thousandths, elapsed times are milliseconds (np.round(.., 3) of         *)
(* seconds).  The elapsed times and frame counts enumerated are ones for   *)
(* which the float arithmetic of the source is exact, so 1/elapsed is      *)
(* 1000 \div ms and int(tfcc / tfc * 100) is (tfcc * 100) \div tfc.        *)
(***************************************************************************)
EXTENDS Integers, Sequences, FiniteSets

\* ---- bounds of the model ----
MaxFrames == 20      \* longest stream explored (frames successfully read)
MaxDet == 2          \* most detections the model returns for one frame

Den == 4             \* normalised coordinates explored are k/Den

\* ---- program constants ----
Window == 10         \* "if fc == 10" / "fps / 10"

\* ---- inputs ----
FrameDims == {<<6, 3>>, <<8, 4>>}          \* <<width, height>>
FrameCounts == {0, 20}                     \* CAP_PROP_FRAME_COUNT
Elapsed == {0, 50, 100}                    \* ms between start_time and end_time
EndCauses == {"eof", "decode"}             \* why a read returns no frame

\* rows of results.xyxyn[0]: x1, y1, x2, y2 (Den-ths), conf (thousandths), cls
Detections ==
  { [x1 |-> 1,  y1 |-> 1, x2 |-> Den,     y2 |-> Den, conf |-> 405, cls |-> 0],
    [x1 |-> -1, y1 |-> 0, x2 |-> Den + 1, y2 |-> Den, conf |-> 990, cls |-> 0] }

RECURSIVE SeqsUpTo(_, _)
SeqsUpTo(S, n) ==
  IF n = 0 THEN {<<>>}
  ELSE LET shorter == SeqsUpTo(S, n - 1)
       IN  shorter \cup {Append(s, d) : s \in {t \in shorter : Len(t) = n - 1}, d \in S}

ModelOutputs == SeqsUpTo(Detections, MaxDet)

Inf == -1            \* the float value inf of the fps accumulator
NoFrame == [id |-> 0, w |-> 0, h |-> 0, ann |-> <<>>]

VARIABLES
  pc,              \* position in __call__
  err,             \* exception that left __call__, "none" if none
  playerCreated,   \* cv2.VideoCapture was constructed
  playerOpened,    \* player.isOpened()
  playerReleased,  \* player.release() was called
  outCreated,      \* cv2.VideoWriter was constructed
  outReleased,     \* out.release() was called
  x_shape, y_shape,\* dimensions read from the stream when it was opened
  tfc,             \* total frame count reported by the stream
  fc,              \* window frame counter
  fps,             \* FPS accumulator
  tfcc,            \* frames accounted for in progress logs
  frame,           \* the frame in hand
  results,         \* model output for the frame in hand
  readCalls,       \* calls of player.read()
  nRead,           \* reads that returned a frame
  endCause,        \* cause of the read that returned no frame
  inferred,        \* ids of the frames passed to the model, in order
  written,         \* ids of the frames passed to out.write, in order
  logs             \* progress lines printed, in order

vars == <<pc, err, playerCreated, playerOpened, playerReleased, outCreated,
          outReleased, x_shape, y_shape, tfc, fc, fps, tfcc, frame, results,
          readCalls, nRead, endCause, inferred, written, logs>>

streamVars == <<playerCreated, playerOpened, playerReleased, outCreated, outReleased>>
setupVars == <<x_shape, y_shape, tfc>>
counterVars == <<fc, fps, tfcc>>
historyVars == <<readCalls, nRead, endCause, inferred, written, logs>>

\* ---- pure helpers ----

\* Python int() of the rational num/den (den > 0): truncation toward zero
IntTrunc(num, den) ==
  IF num >= 0 THEN num \div den ELSE -((-num) \div den)

\* 1/np.round(end_time - start_time, 3); numpy gives inf for a zero divisor
Rate(ms) == IF ms = 0 THEN Inf ELSE 1000 \div ms

\* float addition with inf
FAdd(a, b) == IF a = Inf \/ b = Inf THEN Inf ELSE a + b

\* "if fc == 10"
WindowFullEarly(c) == c >= Window - 1

WindowFull(c) == c = Window

DivError == -2       \* ZeroDivisionError raised by tfcc / tfc

\* int(tfcc / tfc * 100)
PerComGuarded(done, total) ==
  IF total = 0 THEN 0 ELSE IntTrunc(done * 100, total)

PerCom(done, total) ==
  IF total = 0 THEN DivError ELSE IntTrunc(done * 100, total)

Rect(x1, y1, x2, y2) == [op |-> "rect", a |-> x1, b |-> y1, c |-> x2, d |-> y2]
Text(kind, val, x, y) == [op |-> kind, a |-> val, b |-> x, c |-> y, d |-> 0]

\* the drawing calls of one iteration of the for loop of plot_boxes
DrawRow(row, n, w, h) ==
  LET x1 == IntTrunc(row.x1 * w, Den)
      y1 == IntTrunc(row.y1 * h, Den)
      x2 == IntTrunc(row.x2 * w, Den)
      y2 == IntTrunc(row.y2 * h, Den)
  IN  << Rect(x1, y1, x2, y2),
         Text("label", IntTrunc(row.conf * 100, 1000), x1, y1),
         Text("total", n, 30, 30) >>

RECURSIVE DrawRows(_, _, _, _, _)
DrawRows(rows, i, n, w, h) ==
  IF i > n THEN <<>>
  ELSE DrawRow(rows[i], n, w, h) \o DrawRows(rows, i + 1, n, w, h)

\* plot_boxes with the dimensions cached when the stream was opened
plot_boxes_cached(res, fr) ==
  [fr EXCEPT !.ann = fr.ann \o DrawRows(res, 1, Len(res), x_shape, y_shape)]

\* plot_boxes(results, frame): the frame with the drawing calls applied;
\* x_shape, y_shape are frame.shape[1], frame.shape[0]
plot_boxes(res, fr) ==
  [fr EXCEPT !.ann = fr.ann \o DrawRows(res, 1, Len(res), fr.w, fr.h)]

\* ---- the run ----

Init ==
  /\ pc = "start"
  /\ err = "none"
  /\ playerCreated = FALSE /\ playerOpened = FALSE /\ playerReleased = FALSE
  /\ outCreated = FALSE /\ outReleased = FALSE
  /\ x_shape = 0 /\ y_shape = 0 /\ tfc = 0
  /\ fc = 0 /\ fps = 0 /\ tfcc = 0
  /\ frame = NoFrame /\ results = <<>>
  /\ readCalls = 0 /\ nRead = 0 /\ endCause = "none"
  /\ inferred = <<>> /\ written = <<>> /\ logs = <<>>

\* player = self.get_video_from_file(): the capture object always exists,
\* whether the source could be opened is the environment's choice
get_video_from_file ==
  /\ pc = "start"
  /\ \E ok \in BOOLEAN : playerOpened' = ok
  /\ playerCreated' = TRUE
  /\ pc' = "assert"
  /\ UNCHANGED <<err, playerReleased, outCreated, outReleased>>
  /\ UNCHANGED <<setupVars, counterVars, frame, results, historyVars>>

\* the assertion left out
AssertOpenedSkipped ==
  /\ pc = "assert"
  /\ pc' = "setup" /\ err' = err
  /\ UNCHANGED <<streamVars, setupVars, counterVars, frame, results, historyVars>>

\* assert player.isOpened()
AssertOpened ==
  /\ pc = "assert"
  /\ IF playerOpened
       THEN pc' = "setup" /\ err' = err
       ELSE pc' = "error" /\ err' = "AssertionError"
  /\ UNCHANGED <<streamVars, setupVars, counterVars, frame, results, historyVars>>

\* stream properties, the VideoWriter and the session counters
Setup ==
  /\ pc = "setup"
  /\ \E d \in FrameDims : x_shape' = d[1] /\ y_shape' = d[2]
  /\ outCreated' = TRUE
  /\ fc' = 0 /\ fps' = 0 /\ tfcc' = 0
  /\ \E t \in FrameCounts : tfc' = t
  /\ pc' = "loop"
  /\ UNCHANGED <<err, playerCreated, playerOpened, playerReleased, outReleased>>
  /\ UNCHANGED <<frame, results, historyVars>>

\* a read that fails to decode is skipped instead of ending the loop
LoopReadSkipBad ==
  /\ pc = "loop"
  /\ fc' = fc + 1
  /\ readCalls' = readCalls + 1
  /\ \/ /\ playerOpened /\ nRead < MaxFrames
        /\ \E d \in FrameDims :
             frame' = [id |-> nRead + 1, w |-> d[1], h |-> d[2], ann |-> <<>>]
        /\ nRead' = nRead + 1
        /\ pc' = "score"
        /\ UNCHANGED endCause
     \/ /\ endCause' = "eof"
        /\ pc' = "release"
        /\ UNCHANGED <<frame, nRead>>
     \/ /\ endCause = "none"
        /\ endCause' = "decode"
        /\ pc' = "loop"
        /\ UNCHANGED <<frame, nRead>>
  /\ UNCHANGED <<err, streamVars, setupVars, fps, tfcc, results>>
  /\ UNCHANGED <<inferred, written, logs>>

\* fc += 1; ret, frame = player.read(); if not ret: break
LoopRead ==
  /\ pc = "loop"
  /\ fc' = fc + 1
  /\ readCalls' = readCalls + 1
  /\ \/ /\ playerOpened /\ nRead < MaxFrames
        /\ \E d \in FrameDims :
             frame' = [id |-> nRead + 1, w |-> d[1], h |-> d[2], ann |-> <<>>]
        /\ nRead' = nRead + 1
        /\ pc' = "score"
        /\ UNCHANGED endCause
     \/ /\ \E c \in EndCauses : endCause' = c
        /\ pc' = "release"
        /\ UNCHANGED <<frame, nRead>>
  /\ UNCHANGED <<err, streamVars, setupVars, fps, tfcc, results>>
  /\ UNCHANGED <<inferred, written, logs>>

\* results = self.score_frame(frame): the model returns rows or raises
score_frame ==
  /\ pc = "score"
  /\ inferred' = Append(inferred, frame.id)
  /\ \/ /\ \E r \in ModelOutputs : results' = r
        /\ pc' = "plot"
        /\ err' = err
     \/ /\ pc' = "error"
        /\ err' = "InferenceError"
        /\ UNCHANGED results
  /\ UNCHANGED <<streamVars, setupVars, counterVars, frame>>
  /\ UNCHANGED <<readCalls, nRead, endCause, written, logs>>

\* frame = self.plot_boxes(results, frame)
PlotFrame ==
  /\ pc = "plot"
  /\ frame' = plot_boxes(results, frame)
  /\ pc' = "progress"
  /\ UNCHANGED <<err, streamVars, setupVars, counterVars, results, historyVars>>

\* end_time = time(); fps += ...; if fc == 10: the progress computation
Progress ==
  /\ pc = "progress"
  /\ \E ms \in Elapsed :
       LET acc == FAdd(fps, Rate(ms))
           per_com == PerCom(tfcc + fc, tfc)
       IN
       IF ~WindowFull(fc)
         THEN /\ fps' = acc
              /\ pc' = "write"
              /\ UNCHANGED <<err, fc, tfcc, logs>>
         ELSE IF acc = Inf
           THEN \* int(fps / 10) of inf
                /\ fps' = acc
                /\ pc' = "error" /\ err' = "OverflowError"
                /\ UNCHANGED <<fc, tfcc, logs>>
           ELSE /\ fps' = acc \div Window
                /\ tfcc' = tfcc + fc
                /\ fc' = 0
                /\ IF per_com = DivError
                     THEN /\ pc' = "error" /\ err' = "ZeroDivisionError"
                          /\ UNCHANGED logs
                     ELSE /\ logs' = Append(logs,
                                 [fps |-> acc \div Window, per_com |-> per_com])
                          /\ pc' = "write" /\ err' = err
  /\ UNCHANGED <<streamVars, setupVars, frame, results>>
  /\ UNCHANGED <<readCalls, nRead, endCause, inferred, written>>

\* the write left out on the frames that log progress
WriteFrameUnlessLogged ==
  /\ pc = "write"
  /\ written' = IF fc = 0 THEN written ELSE Append(written, frame.id)
  /\ pc' = "loop"
  /\ UNCHANGED <<err, streamVars, setupVars, counterVars, frame, results>>
  /\ UNCHANGED <<readCalls, nRead, endCause, inferred, logs>>

\* out.write(frame)
WriteFrame ==
  /\ pc = "write"
  /\ written' = Append(written, frame.id)
  /\ pc' = "loop"
  /\ UNCHANGED <<err, streamVars, setupVars, counterVars, frame, results>>
  /\ UNCHANGED <<readCalls, nRead, endCause, inferred, logs>>

\* player.release() after the loop; __call__ returns
Release ==
  /\ pc = "release"
  /\ playerReleased' = TRUE
  /\ pc' = "done"
  /\ UNCHANGED <<err, playerCreated, playerOpened, outCreated, outReleased>>
  /\ UNCHANGED <<setupVars, counterVars, frame, results, historyVars>>

Next ==
  \/ get_video_from_file
  \/ AssertOpened
  \/ Setup
  \/ LoopRead
  \/ score_frame
  \/ PlotFrame
  \/ Progress
  \/ WriteFrame
  \/ Release

Spec == Init /\ [][Next]_vars

\* every step of the run completes (blocking calls return)
FairSpec == Spec /\ WF_vars(Next)

TypeOK ==
  /\ pc \in {"start", "assert", "setup", "loop", "score", "plot", "progress",
             "write", "release", "done", "error"}
  /\ fc \in 0..Window
  /\ nRead \in 0..MaxFrames

\* ---- properties ----

Terminated == pc \in {"done", "error"}

InUnit(row) ==
  /\ 0 <= row.x1 /\ row.x1 <= Den /\ 0 <= row.y1 /\ row.y1 <= Den
  /\ 0 <= row.x2 /\ row.x2 <= Den /\ 0 <= row.y2 /\ row.y2 <= Den

\* the rectangle plot_boxes drew for the i-th row of results
RectOf(fr, i) == fr.ann[3 * (i - 1) + 1]

\* C1: the frames passed to the model and the frames written are the frames
\* read, each once and in input order; at every point written <= inferred <=
\* read, a frame in hand accounts for the only difference, and after the read
\* that returns no frame all three agree.
C1_OneResultAndOneWritePerFrame ==
  /\ Len(written) <= Len(inferred) /\ Len(inferred) <= nRead
  /\ nRead <= Len(written) + 1
  /\ \A i \in 1..Len(inferred) : inferred[i] = i
  /\ \A i \in 1..Len(written) : written[i] = i
  /\ pc \in {"loop", "release", "done"} =>
       Len(written) = nRead /\ Len(inferred) = nRead

C1_Witness == pc = "done" /\ Len(written) > Window

\* C2: one progress line per Window processed frames: between iterations and
\* at the end of the run floor(written / Window) lines have been printed,
\* never more than one per Window frames read, and the read that returns no
\* frame prints none.
C2_LogInv ==
  /\ pc \in {"loop", "release", "done", "error"} =>
       Len(logs) = Len(written) \div Window
  /\ Len(logs) * Window <= nRead

C2_OneLogPerWindow ==
  /\ []C2_LogInv
  /\ [][(pc = "loop" /\ pc' = "release") => logs' = logs]_vars

C2_Witness == pc = "done" /\ Len(logs) = 2 /\ Len(written) = 2 * Window

\* C3 (as claimed): every frame handed to out.write carries the
\* "Total Targets: n" text with n the number of detections, n = 0 included.
C3_EveryWrittenFrameCarriesTotal ==
  pc = "write" =>
    \E i \in DOMAIN frame.ann :
      frame.ann[i].op = "total" /\ frame.ann[i].a = Len(results)

\* C4: when the source cannot be opened the run ends with the assertion
\* error before the writer is created, nothing is read, inferred or written,
\* and nothing happens afterwards (no retry).
C4_OpenFailInv ==
  (playerCreated /\ ~playerOpened /\ pc # "assert") =>
    /\ pc = "error" /\ err = "AssertionError"
    /\ ~outCreated
    /\ readCalls = 0 /\ inferred = <<>> /\ written = <<>> /\ logs = <<>>

C4_OpenFailureAborts ==
  /\ []C4_OpenFailInv
  /\ [][err = "AssertionError" => UNCHANGED vars]_vars

C4_Witness == pc = "error" /\ err = "AssertionError" /\ ~playerOpened

\* C5 (as claimed): after the read that returns no frame, both stream
\* handles have been released when __call__ returns.
C5_BothReleasedAtReturn ==
  pc = "done" => playerReleased /\ outReleased

\* C6 (as claimed): when an error leaves __call__ after the streams were
\* opened, both stream handles have been released.
C6_BothReleasedOnError ==
  (pc = "error" /\ outCreated) => playerReleased /\ outReleased

\* C7 (as claimed): every window starts with the frame counter and the FPS
\* accumulator at zero.
C7_WindowStartsFromZero ==
  (pc = "loop" /\ fc = 0) => fps = 0

\* C8: every rectangle drawn for a detection with coordinates in [0,1] is
\* the detection denormalised with the frame's own width and height, and lies
\* within [0, width] x [0, height] of that frame.
C8_BoxesWithinFrame ==
  pc \in {"progress", "write"} =>
    \A i \in 1..Len(results) :
      InUnit(results[i]) =>
        LET r == RectOf(frame, i) IN
        /\ r.op = "rect"
        /\ r.a = IntTrunc(results[i].x1 * frame.w, Den)
        /\ r.c = IntTrunc(results[i].x2 * frame.w, Den)
        /\ r.b = IntTrunc(results[i].y1 * frame.h, Den)
        /\ r.d = IntTrunc(results[i].y2 * frame.h, Den)
        /\ 0 <= r.a /\ r.a <= frame.w /\ 0 <= r.c /\ r.c <= frame.w
        /\ 0 <= r.b /\ r.b <= frame.h /\ 0 <= r.d /\ r.d <= frame.h

C8_Witness ==
  /\ pc = "write" /\ Len(results) > 0 /\ InUnit(results[1])
  /\ frame.w < x_shape /\ RectOf(frame, 1).c = frame.w

\* C9: the first read that returns no frame, end of file or decode failure
\* alike, ends the loop without an error: no further read is made, every
\* frame read before it was inferred and written, nothing happens after the
\* return, and every run terminates.
C9_EndInv ==
  pc \in {"release", "done"} =>
    /\ err = "none" /\ endCause \in EndCauses
    /\ readCalls = nRead + 1
    /\ Len(inferred) = nRead /\ Len(written) = nRead

C9_FirstFailedReadEndsRun ==
  /\ []C9_EndInv
  /\ [][pc = "done" => UNCHANGED vars]_vars
  /\ <>Terminated

C9_Witness ==
  pc = "done" /\ endCause = "decode" /\ nRead > 0 /\ nRead < MaxFrames

\* C10: with a reported frame count of 0 the tenth frame is never written
\* and no progress line is printed; the division error is raised in the
\* progress computation of the tenth frame, with nine frames written and
\* neither stream released.
C10_ZeroFrameCountAbortsBeforeWrite ==
  /\ (outCreated /\ tfc = 0) => Len(written) < Window /\ logs = <<>>
  /\ err = "ZeroDivisionError" =>
       /\ pc = "error" /\ tfc = 0
       /\ nRead = Window /\ Len(inferred) = Window /\ Len(written) = Window - 1
       /\ logs = <<>>
       /\ ~playerReleased /\ ~outReleased

C10_Witness == err = "ZeroDivisionError" /\ Len(written) = Window - 1
====
